---------------------------- MODULE Spec2Model ----------------------------
(***************************************************************************)
(* Model of app.py: the roster extraction, the name normalisation, the     *)
(* fuzzy match of file names to roster keys, the header geometry and       *)
(* stamping, and the per-file loop that builds the match log and the       *)
(* output archive.                                                         *)
(*                                                                         *)
(* Text is a sequence of characters; a character is a one-symbol string,   *)
(* or a name for a non-ASCII code point:                                   *)
(*   "a~"   U+00E3 (a with tilde), NFKD = "a" U+0303                       *)
(*   "~"    U+0303 (combining tilde)                                       *)
(*   "EUR"  U+20AC (euro sign), no decomposition                           *)
(*   "NBSP" U+00A0 (no-break space), NFKD = " ", str.isspace() is true     *)
(***************************************************************************)
EXTENDS Integers, Sequences, FiniteSets, TLC

(***************************************************************************)
(* Bounds of the modelled inputs.                                          *)
(***************************************************************************)
MaxLen == 3
MaxGroups == 2
MaxFiles == 2
MaxCols == 3

(***************************************************************************)
(* Program constants.                                                      *)
(***************************************************************************)
BlockRows == 6
HeaderRows == 5
ProbeRow == 6
CutoffNum == 3
CutoffDen == 10

(***************************************************************************)
(* Characters: the classes str.isalnum, str.isspace, str.lower, the ASCII  *)
(* encoder and unicodedata.normalize("NFKD") see.                          *)
(***************************************************************************)
LowerLetters == {"a", "b", "c", "l", "n", "s", "x"}
UpperLetters == {"A", "B"}
DigitChars == <<"0", "1", "2", "3", "4", "5", "6", "7", "8", "9">>
AsciiDigits == {DigitChars[i] : i \in DOMAIN DigitChars}
AsciiSpaces == {" "}
AsciiPunct == {".", "&", "-"}
AsciiChars == LowerLetters \cup UpperLetters \cup AsciiDigits \cup AsciiSpaces \cup AsciiPunct
NonAsciiChars == {"a~", "~", "EUR", "NBSP"}

IsAscii(c) == c \in AsciiChars
IsAlnum(c) == c \in LowerLetters \cup UpperLetters \cup AsciiDigits \cup {"a~"}
IsSpace(c) == c \in AsciiSpaces \cup {"NBSP"}
Lower(c) == CASE c = "A" -> "a" [] c = "B" -> "b" [] OTHER -> c
NFKD(c) == CASE c = "a~" -> <<"a", "~">> [] c = "NBSP" -> <<" ">> [] OTHER -> <<c>>

\* Code point order of the characters a normalised text can hold.
CharOrder == <<" ", "0", "1", "2", "3", "4", "5", "6", "7", "8", "9", "a", "b", "c", "l", "n", "s", "x">>
Ord(c) == CHOOSE i \in DOMAIN CharOrder : CharOrder[i] = c

Min(a, b) == IF a < b THEN a ELSE b
Max(a, b) == IF a > b THEN a ELSE b

RECURSIVE ConcatMapNFKD(_)
ConcatMapNFKD(s) == IF s = <<>> THEN <<>> ELSE NFKD(Head(s)) \o ConcatMapNFKD(Tail(s))

MapLower(s) == [i \in DOMAIN s |-> Lower(s[i])]

\* str.strip(): drops the leading and the trailing whitespace.
Strip(s) ==
    LET keep == {i \in DOMAIN s : ~IsSpace(s[i])}
    IN IF keep = {} THEN <<>>
       ELSE LET lo == CHOOSE i \in keep : \A j \in keep : i <= j
                hi == CHOOSE i \in keep : \A j \in keep : i >= j
            IN SubSeq(s, lo, hi)

AlnumOrSpace(c) == IsAlnum(c) \/ IsSpace(c)

normalizarStripFirst(texto) ==
    LET nfkd == ConcatMapNFKD(texto)
        ascii_txt == SelectSeq(nfkd, IsAscii)
    IN MapLower(SelectSeq(Strip(ascii_txt), AlnumOrSpace))

normalizar(texto) ==
    LET nfkd == ConcatMapNFKD(texto)
        ascii_txt == SelectSeq(nfkd, IsAscii)
    IN Strip(MapLower(SelectSeq(ascii_txt, AlnumOrSpace)))


(***************************************************************************)
(* Cells.  A cell of the roster DataFrame is NaN (a blank cell), a text or *)
(* an integer; a cell of a worksheet is None, a text or an integer.        *)
(* PyStr is str(): the identity on a text, the decimal digits of an        *)
(* integer, "nan" for NaN.                                                 *)
(***************************************************************************)
NaN == [kind |-> "nan"]
None == [kind |-> "none"]
Txt(s) == [kind |-> "str", s |-> s]
Num(n) == [kind |-> "int", n |-> n]

RECURSIVE IntStr(_)
IntStr(n) == IF n < 10 THEN <<DigitChars[n + 1]>> ELSE IntStr(n \div 10) \o <<DigitChars[(n % 10) + 1]>>

PyStr(v) ==
    CASE v.kind = "str" -> v.s
      [] v.kind = "int" -> IntStr(v.n)
      [] v.kind = "nan" -> <<"n", "a", "n">>
      [] OTHER -> <<"N", "o", "n", "e">>

isna(v) == v.kind \in {"nan", "none"}

(***************************************************************************)
(* Python dicts keep the order of first insertion; assigning to a key that *)
(* is present replaces its value in place.  A dict is a sequence of        *)
(* [k, v] items.                                                           *)
(***************************************************************************)
DictKeys(d) == [i \in DOMAIN d |-> d[i].k]
DictHas(d, k) == \E i \in DOMAIN d : d[i].k = k
DictGet(d, k) == d[CHOOSE i \in DOMAIN d : d[i].k = k].v
DictSet(d, k, v) ==
    IF DictHas(d, k)
    THEN [i \in DOMAIN d |-> IF d[i].k = k THEN [k |-> k, v |-> v] ELSE d[i]]
    ELSE Append(d, [k |-> k, v |-> v])

(***************************************************************************)
(* extrair_blocos_empresas.  df is the DataFrame's column B (index 1), the *)
(* only column read; row i of the frame is df[i + 1].                      *)
(***************************************************************************)
BlocoValido(bloco) == ~(Len(bloco) < 2 \/ isna(bloco[1]))

BlocoRegistroSwapped(bloco) ==
    [RAZAO_SOCIAL |-> Strip(PyStr(bloco[1])),
     CNPJ     |-> IF Len(bloco) > 1 THEN Strip(PyStr(bloco[2])) ELSE <<>>,
     ENDERECO |-> IF Len(bloco) > 3 THEN Strip(PyStr(bloco[4])) ELSE <<>>,
     TELEFONE |-> IF Len(bloco) > 2 THEN Strip(PyStr(bloco[3])) ELSE <<>>,
     EMAIL    |-> IF Len(bloco) > 4 THEN Strip(PyStr(bloco[5])) ELSE <<>>]

\* The record of one block; EMAIL is the dict key "E-MAIL".
BlocoRegistro(bloco) ==
    [RAZAO_SOCIAL |-> Strip(PyStr(bloco[1])),
     CNPJ     |-> IF Len(bloco) > 1 THEN Strip(PyStr(bloco[2])) ELSE <<>>,
     ENDERECO |-> IF Len(bloco) > 2 THEN Strip(PyStr(bloco[3])) ELSE <<>>,
     TELEFONE |-> IF Len(bloco) > 3 THEN Strip(PyStr(bloco[4])) ELSE <<>>,
     EMAIL    |-> IF Len(bloco) > 4 THEN Strip(PyStr(bloco[5])) ELSE <<>>]

\* df.iloc[i : i + 6]
Bloco(df, i) == SubSeq(df, i + 1, Min(i + BlockRows, Len(df)))

RECURSIVE ExtrairDesde(_, _, _)
ExtrairDesde(df, i, dados) ==
    IF i >= Len(df) THEN dados
    ELSE LET bloco == Bloco(df, i)
         IN IF ~BlocoValido(bloco)
            THEN ExtrairDesde(df, i + BlockRows, dados)
            ELSE LET reg == BlocoRegistro(bloco)
                 IN ExtrairDesde(df, i + BlockRows, DictSet(dados, reg.RAZAO_SOCIAL, reg))

extrair_blocos_empresas(df) == ExtrairDesde(df, 0, <<>>)

\* { normalizar(nome): info for nome, info in dados_empresas.items() }
RECURSIVE NormIndexDesde(_, _, _)
NormIndexDesde(dados, i, acc) ==
    IF i > Len(dados) THEN acc
    ELSE NormIndexDesde(dados, i + 1, DictSet(acc, normalizar(dados[i].k), dados[i].v))

NormIndex(dados) == NormIndexDesde(dados, 1, <<>>)

(***************************************************************************)
(* difflib.  SequenceMatcher with a = the candidate, b = the word, no junk *)
(* (the texts are far shorter than the 200 characters at which autojunk    *)
(* starts).  find_longest_match returns the longest common block, the one  *)
(* starting earliest in a and then earliest in b; the matching blocks are  *)
(* found by recursion to its left and right.  Indices are 1-based and the  *)
(* ranges alo..ahi, blo..bhi inclusive.                                    *)
(***************************************************************************)
RunLen(a, b, i, j, ahi, bhi) ==
    LET lim == Min(ahi - i + 1, bhi - j + 1)
    IN CHOOSE k \in 0..lim :
          /\ \A t \in 0..(k - 1) : a[i + t] = b[j + t]
          /\ (k = lim \/ a[i + k] # b[j + k])

find_longest_match(a, b, alo, ahi, blo, bhi) ==
    LET cands == {<<i, j>> : i \in alo..ahi, j \in blo..bhi}
        size(p) == RunLen(a, b, p[1], p[2], ahi, bhi)
        best == CHOOSE p \in cands :
                  \A q \in cands :
                     \/ size(p) > size(q)
                     \/ /\ size(p) = size(q)
                        /\ (p[1] < q[1] \/ (p[1] = q[1] /\ p[2] <= q[2]))
    IN [i |-> best[1], j |-> best[2], size |-> size(best)]

RECURSIVE MatchCount(_, _, _, _, _, _)
MatchCount(a, b, alo, ahi, blo, bhi) ==
    IF alo > ahi \/ blo > bhi THEN 0
    ELSE LET m == find_longest_match(a, b, alo, ahi, blo, bhi)
         IN IF m.size = 0 THEN 0
            ELSE m.size + MatchCount(a, b, alo, m.i - 1, blo, m.j - 1)
                        + MatchCount(a, b, m.i + m.size, ahi, m.j + m.size, bhi)

\* ratio() = 2.0 * matches / (len(a) + len(b)), 1.0 when both are empty.
ratio(a, b) ==
    IF Len(a) + Len(b) = 0 THEN [num |-> 1, den |-> 1]
    ELSE [num |-> 2 * MatchCount(a, b, 1, Len(a), 1, Len(b)), den |-> Len(a) + Len(b)]

RatioLess(r, s) == r.num * s.den < s.num * r.den
RatioEq(r, s) == r.num * s.den = s.num * r.den

\* ratio() >= cutoff; real_quick_ratio() and quick_ratio() are upper bounds
\* of ratio(), so the three tests of get_close_matches reduce to this one.
PassesCutoff(r) == r.num * CutoffDen >= CutoffNum * r.den

\* Python's order on str: by code point, a proper prefix first.
StrLess(x, y) ==
    \E n \in 0..Min(Len(x), Len(y)) :
       /\ \A t \in 1..n : x[t] = y[t]
       /\ \/ (n = Len(x) /\ n < Len(y))
          \/ (n < Len(x) /\ n < Len(y) /\ Ord(x[n + 1]) < Ord(y[n + 1]))

\* The order of the (score, x) tuples heapq.nlargest compares.
ScoredLess(word, x, y) ==
    \/ RatioLess(ratio(x, word), ratio(y, word))
    \/ (RatioEq(ratio(x, word), ratio(y, word)) /\ StrLess(x, y))

get_close_matchesFirst(word, possibilities) ==
    LET ok == {i \in DOMAIN possibilities : PassesCutoff(ratio(possibilities[i], word))}
    IN IF ok = {} THEN <<>>
       ELSE <<possibilities[CHOOSE i \in ok : \A j \in ok : i <= j]>>

\* get_close_matches(word, possibilities, n=1, cutoff=0.3)
get_close_matches(word, possibilities) ==
    LET result == {possibilities[i] : i \in {j \in DOMAIN possibilities :
                                               PassesCutoff(ratio(possibilities[j], word))}}
    IN IF result = {} THEN <<>>
       ELSE <<CHOOSE x \in result : \A y \in result \ {x} : ScoredLess(word, y, x)>>

\* nome_arquivo.replace(".xlsx", "")
XlsxExt == <<".", "x", "l", "s", "x">>
StartsWith(s, pat) == Len(s) >= Len(pat) /\ SubSeq(s, 1, Len(pat)) = pat

RECURSIVE RemoveAll(_, _)
RemoveAll(s, pat) ==
    IF s = <<>> THEN <<>>
    ELSE IF StartsWith(s, pat) THEN RemoveAll(SubSeq(s, Len(pat) + 1, Len(s)), pat)
    ELSE <<Head(s)>> \o RemoveAll(Tail(s), pat)

BaseNome(nome_arquivo) == Strip(RemoveAll(nome_arquivo, XlsxExt))

(***************************************************************************)
(* Worksheets (openpyxl).  cells maps <<row, column>> to a cell, a record  *)
(* of its value and alignment; merged is the set of merged ranges.         *)
(* insert_rows moves the cells down and leaves the merged ranges where     *)
(* they are; merge_cells adds its range without looking at those present   *)
(* and turns the range's cells other than the top-left one into blanks.    *)
(***************************************************************************)
NoSheet == [cells |-> [p \in {} |-> None], merged |-> {}]
PlainCell(v) == [value |-> v, alignment |-> "general"]
Range(r1, c1, r2, c2) == [min_row |-> r1, min_col |-> c1, max_row |-> r2, max_col |-> c2]

SetMax(S) == CHOOSE x \in S : \A y \in S : y <= x

max_column(ws) ==
    IF DOMAIN ws.cells = {} THEN 1 ELSE SetMax({p[2] : p \in DOMAIN ws.cells})

\* ws[r]: the values of row r in columns 1..max_column.
RowValues(ws, r) ==
    [c \in 1..max_column(ws) |->
        IF <<r, c>> \in DOMAIN ws.cells THEN ws.cells[<<r, c>>].value ELSE None]

\* cell.value is not None and str(cell.value).strip() != ""
CellFilled(v) == v.kind # "none" /\ Strip(PyStr(v)) # <<>>

LastColCount(ws) ==
    Max(1, Cardinality({c \in 1..max_column(ws) : CellFilled(RowValues(ws, ProbeRow)[c])}))

\* The loop over ws[6]: last_col = max(last_col, cell.column) from 1.
LastCol(ws) ==
    SetMax({1} \cup {c \in 1..max_column(ws) : CellFilled(RowValues(ws, ProbeRow)[c])})

insert_rows(ws, amount) ==
    [ws EXCEPT !.cells = [p \in {<<q[1] + amount, q[2]>> : q \in DOMAIN ws.cells}
                            |-> ws.cells[<<p[1] - amount, p[2]>>]]]

Put(f, p, v) == [q \in DOMAIN f \cup {p} |-> IF q = p THEN v ELSE f[q]]

merge_cells(ws, r1, c1, r2, c2) ==
    LET inner == {<<r, c>> : r \in r1..r2, c \in c1..c2} \ {<<r1, c1>>}
    IN [cells |-> [q \in DOMAIN ws.cells \cup inner |->
                     IF q \in inner THEN PlainCell(None) ELSE ws.cells[q]],
        merged |-> ws.merged \cup {Range(r1, c1, r2, c2)}]

\* One header line: merge row r from column A to last_col, then set the
\* alignment and the value f"{label}{text}" of its first cell.
HeaderLine(ws, r, lastcol, label, text, align) ==
    LET m == merge_cells(ws, r, 1, r, lastcol)
    IN [m EXCEPT !.cells = Put(m.cells, <<r, 1>>,
                               [value |-> [kind |-> "fstr", label |-> label, s |-> text],
                                alignment |-> align])]

StampHeader(ws, info, lastcol) ==
    LET w1 == HeaderLine(ws, 1, lastcol, "RAZAO SOCIAL: ", info.RAZAO_SOCIAL, "left/center")
        w2 == HeaderLine(w1, 2, lastcol, "CNPJ: ", info.CNPJ, "left/center")
        w3 == HeaderLine(w2, 3, lastcol, "ENDERECO: ", info.ENDERECO, "left/center/wrap")
        w4 == HeaderLine(w3, 4, lastcol, "TELEFONE: ", info.TELEFONE, "left/center")
    IN HeaderLine(w4, 5, lastcol, "E-MAIL: ", info.EMAIL, "left/center")

(***************************************************************************)
(* The inputs of a run: the roster upload, and the batch of uploaded       *)
(* files, each with its name, whether load_workbook opens it, and the      *)
(* active sheet it then holds.                                             *)
(***************************************************************************)
CellAb == Txt(<<"A", "b">>)
CellAbSp == Txt(<<" ", "A", "b", " ">>)
CellAB == Txt(<<"A", "B">>)
Cellabc == Txt(<<"a", "b", "c">>)
CellWS == Txt(<<" ">>)

Fields1 == <<Txt(<<"1", "1">>), Txt(<<" ", "a", " ", "b", " ">>), Num(7), Txt(<<"a", "&", "b">>)>>
Fields2 == <<NaN, Txt(<<"b">>), Txt(<<"1", "-", "2">>), NaN>>

\* A complete block of 6 rows: the name, four fields, a blank separator.
Group(nameCell, fields) == <<nameCell>> \o fields \o <<NaN>>

RECURSIVE Flatten(_)
Flatten(ss) == IF ss = <<>> THEN <<>> ELSE Head(ss) \o Flatten(Tail(ss))

FullGroups == {Group(n, f) : n \in {NaN, CellWS, CellAb, CellAbSp, Cellabc}, f \in {Fields1, Fields2}}
TailGroups == {<<>>, <<CellAB>>, <<CellAB, Num(9)>>, <<NaN, Num(9)>>,
               <<CellAB, Num(9), Txt(<<"b">>), Txt(<<"x">>), Txt(<<"c">>)>>}

Tables == {Flatten(g) \o t : g \in UNION {[1..n -> FullGroups] : n \in 0..MaxGroups}, t \in TailGroups}

Xlsx(df) == [kind |-> "xlsx", df |-> df]
RosterAb == Xlsx(Group(CellAb, Fields1))

MainRosters ==
    {[kind |-> "none", df |-> <<>>], [kind |-> "corrupt", df |-> <<>>],
     Xlsx(<<>>), Xlsx(Group(NaN, Fields1)), Xlsx(Group(CellWS, Fields2)), RosterAb,
     Xlsx(Group(CellAb, Fields1) \o Group(Cellabc, Fields2)),
     Xlsx(Group(Cellabc, Fields2) \o Group(CellAb, Fields1)),
     Xlsx(Group(CellAb, Fields1) \o Group(CellAB, Fields2)),
     Xlsx(Group(CellWS, Fields2) \o Group(Cellabc, Fields1))}

\* A sheet with the given rows 6 and 7 and merged ranges.
SheetOf(row6, row7, merged) ==
    [cells |-> [p \in {<<ProbeRow, c>> : c \in {d \in DOMAIN row6 : row6[d].kind # "none"}}
                      \cup {<<ProbeRow + 1, c>> : c \in {d \in DOMAIN row7 : row7[d].kind # "none"}}
                  |-> PlainCell(IF p[1] = ProbeRow THEN row6[p[2]] ELSE row7[p[2]])],
     merged |-> merged]

X == Txt(<<"x">>)
SheetValues == {None, CellWS, X}
MergeOptions == {{}, {Range(6, 1, 6, 2)}, {Range(1, 1, 2, 2)}, {Range(1, 2, 1, 3), Range(8, 1, 9, 1)}}
BigSheets == {SheetOf(r6, r7, m) : r6 \in [1..MaxCols -> SheetValues],
                                   r7 \in [1..MaxCols -> {None, X}], m \in MergeOptions}

SmallSheets == {SheetOf(<<X, X>>, <<X, X, X>>, {}), SheetOf(<<X>>, <<>>, {Range(1, 1, 1, 2)})}

NameAb == <<"a", "b">> \o XlsxExt
NameAbc == <<"A", "B", "c">> \o XlsxExt
Name1 == <<"1">> \o XlsxExt
FileNames == {NameAb, NameAbc, Name1}

File(name, opens, sheet) == [name |-> name, opens |-> opens, sheet |-> sheet]
Files == {File(n, FALSE, NoSheet) : n \in FileNames}
           \cup {File(n, TRUE, sh) : n \in FileNames, sh \in SmallSheets}
Batches == UNION {[1..n -> Files] : n \in 0..MaxFiles}

(***************************************************************************)
(* The state of a run of the script.                                       *)
(***************************************************************************)
VARIABLES
    dados_empresas_file,   \* the roster upload
    arquivos_empresas,     \* the uploaded files
    pc,                    \* the position of the script
    df_empresas,           \* the DataFrame read from the roster
    dados_empresas,        \* razao -> record, in insertion order
    dados_empresas_norm,   \* normalizar(razao) -> record
    output_zip,            \* [created, entries]: the archive being written
    match_log,             \* the match log
    idx,                   \* the files the loop is done with
    info,                  \* the matched record of the current file
    ws,                    \* the active sheet of the current workbook
    last_col,              \* the detected width
    download,              \* [shown, data]: what the download button offers
    texto, norm1, norm2, pcN   \* the normaliser applied once and twice

vars == <<dados_empresas_file, arquivos_empresas, pc, df_empresas, dados_empresas,
          dados_empresas_norm, output_zip, match_log, idx, info, ws, last_col,
          download, texto, norm1, norm2, pcN>>

normVars == <<texto, norm1, norm2, pcN>>
runVars == <<dados_empresas_file, arquivos_empresas, pc, df_empresas, dados_empresas,
             dados_empresas_norm, output_zip, match_log, idx, info, ws, last_col, download>>

NoInfo == [RAZAO_SOCIAL |-> <<>>, CNPJ |-> <<>>, ENDERECO |-> <<>>, TELEFONE |-> <<>>, EMAIL |-> <<>>]

InitRun(rosters, batches) ==
    /\ dados_empresas_file \in rosters
    /\ arquivos_empresas \in batches
    /\ pc = "script"
    /\ df_empresas = <<>>
    /\ dados_empresas = <<>>
    /\ dados_empresas_norm = <<>>
    /\ output_zip = [created |-> FALSE, entries |-> <<>>]
    /\ match_log = <<>>
    /\ idx = 0
    /\ info = NoInfo
    /\ ws = NoSheet
    /\ last_col = 1
    /\ download = [shown |-> FALSE, data |-> <<>>]

NormIdle == texto = <<>> /\ norm1 = <<>> /\ norm2 = <<>> /\ pcN = "idle"

Init == InitRun(MainRosters, Batches) /\ NormIdle

(***************************************************************************)
(* The script, one action per step.                                        *)
(***************************************************************************)
arquivo == arquivos_empresas[idx + 1]
nome_arquivo == arquivo.name
base_nome == BaseNome(nome_arquivo)
nome_norm == normalizar(base_nome)

LogFound(base, razao) == [kind |-> "found", nome |-> base, detail |-> razao]
LogNotFound(base, norm) == [kind |-> "notfound", nome |-> base, detail |-> norm]
LogOpenError(nome) == [kind |-> "openerror", nome |-> nome, detail |-> <<>>]

\* if dados_empresas_file and arquivos_empresas: try pd.read_excel ... except: st.stop()
ReadRoster ==
    /\ pc = "script"
    /\ IF dados_empresas_file.kind = "none" \/ arquivos_empresas = <<>>
       THEN pc' = "waiting" /\ UNCHANGED df_empresas
       ELSE IF dados_empresas_file.kind = "corrupt"
       THEN pc' = "stopped" /\ UNCHANGED df_empresas
       ELSE pc' = "extract" /\ df_empresas' = dados_empresas_file.df
    /\ UNCHANGED <<dados_empresas_file, arquivos_empresas, dados_empresas, dados_empresas_norm,
                   output_zip, match_log, idx, info, ws, last_col, download>>
    /\ UNCHANGED normVars

ExtractNoStop ==
    /\ pc = "extract"
    /\ dados_empresas' = extrair_blocos_empresas(df_empresas)
    /\ pc' = "index"
    /\ UNCHANGED <<dados_empresas_file, arquivos_empresas, df_empresas, dados_empresas_norm,
                   output_zip, match_log, idx, info, ws, last_col, download>>
    /\ UNCHANGED normVars

\* dados_empresas = extrair_blocos_empresas(df_empresas); if not dados_empresas: st.stop()
Extract ==
    /\ pc = "extract"
    /\ dados_empresas' = extrair_blocos_empresas(df_empresas)
    /\ pc' = IF dados_empresas' = <<>> THEN "stopped" ELSE "index"
    /\ UNCHANGED <<dados_empresas_file, arquivos_empresas, df_empresas, dados_empresas_norm,
                   output_zip, match_log, idx, info, ws, last_col, download>>
    /\ UNCHANGED normVars

\* dados_empresas_norm, output_zip = BytesIO(), match_log = [], ZipFile(output_zip, "w")
BuildIndex ==
    /\ pc = "index"
    /\ dados_empresas_norm' = NormIndex(dados_empresas)
    /\ output_zip' = [created |-> TRUE, entries |-> <<>>]
    /\ match_log' = <<>>
    /\ pc' = "loop"
    /\ UNCHANGED <<dados_empresas_file, arquivos_empresas, df_empresas, dados_empresas,
                   idx, info, ws, last_col, download>>
    /\ UNCHANGED normVars

\* The head of the loop body: the match of the next file and its log line.
MatchFile ==
    /\ pc = "loop"
    /\ idx < Len(arquivos_empresas)
    /\ LET matches == get_close_matches(nome_norm, DictKeys(dados_empresas_norm))
       IN IF matches = <<>>
          THEN /\ match_log' = Append(match_log, LogNotFound(base_nome, nome_norm))
               /\ idx' = idx + 1
               /\ UNCHANGED <<pc, info>>
          ELSE /\ info' = DictGet(dados_empresas_norm, matches[1])
               /\ match_log' = Append(match_log, LogFound(base_nome, info'.RAZAO_SOCIAL))
               /\ pc' = "open"
               /\ UNCHANGED idx
    /\ UNCHANGED <<dados_empresas_file, arquivos_empresas, df_empresas, dados_empresas,
                   dados_empresas_norm, output_zip, ws, last_col, download>>
    /\ UNCHANGED normVars

OpenFileUncaught ==
    /\ pc = "open"
    /\ IF arquivo.opens
       THEN /\ ws' = arquivo.sheet
            /\ pc' = "detect"
            /\ UNCHANGED <<match_log, idx>>
       ELSE /\ pc' = "stopped"
            /\ UNCHANGED <<match_log, idx, ws>>
    /\ UNCHANGED <<dados_empresas_file, arquivos_empresas, df_empresas, dados_empresas,
                   dados_empresas_norm, output_zip, info, last_col, download>>
    /\ UNCHANGED normVars

\* try: wb = load_workbook(arquivo) except: match_log.append(...); continue / ws = wb.active
OpenFile ==
    /\ pc = "open"
    /\ IF arquivo.opens
       THEN /\ ws' = arquivo.sheet
            /\ pc' = "detect"
            /\ UNCHANGED <<match_log, idx>>
       ELSE /\ match_log' = Append(match_log, LogOpenError(nome_arquivo))
            /\ idx' = idx + 1
            /\ pc' = "loop"
            /\ UNCHANGED ws
    /\ UNCHANGED <<dados_empresas_file, arquivos_empresas, df_empresas, dados_empresas,
                   dados_empresas_norm, output_zip, info, last_col, download>>
    /\ UNCHANGED normVars

\* last_col = 1; for cell in ws[6]: ...
DetectLastCol ==
    /\ pc = "detect"
    /\ last_col' = LastCol(ws)
    /\ pc' = "insert"
    /\ UNCHANGED <<dados_empresas_file, arquivos_empresas, df_empresas, dados_empresas,
                   dados_empresas_norm, output_zip, match_log, idx, info, ws, download>>
    /\ UNCHANGED normVars

\* ws.insert_rows(1, amount=5)
InsertRows ==
    /\ pc = "insert"
    /\ ws' = insert_rows(ws, HeaderRows)
    /\ pc' = "merge"
    /\ UNCHANGED <<dados_empresas_file, arquivos_empresas, df_empresas, dados_empresas,
                   dados_empresas_norm, output_zip, match_log, idx, info, last_col, download>>
    /\ UNCHANGED normVars

\* the five merge_cells / alignment / value blocks
MergeHeader ==
    /\ pc = "merge"
    /\ ws' = StampHeader(ws, info, last_col)
    /\ pc' = "save"
    /\ UNCHANGED <<dados_empresas_file, arquivos_empresas, df_empresas, dados_empresas,
                   dados_empresas_norm, output_zip, match_log, idx, info, last_col, download>>
    /\ UNCHANGED normVars

\* wb.save(buffer); zipf.writestr(nome_arquivo, buffer.read()); next file
SaveFile ==
    /\ pc = "save"
    /\ output_zip' = [output_zip EXCEPT !.entries = Append(@, [name |-> nome_arquivo, content |-> ws])]
    /\ idx' = idx + 1
    /\ pc' = "loop"
    /\ UNCHANGED <<dados_empresas_file, arquivos_empresas, df_empresas, dados_empresas,
                   dados_empresas_norm, match_log, info, ws, last_col, download>>
    /\ UNCHANGED normVars

\* After the loop: the log is shown and the download button offers the archive.
Finish ==
    /\ pc = "loop"
    /\ idx = Len(arquivos_empresas)
    /\ download' = [shown |-> TRUE, data |-> output_zip.entries]
    /\ pc' = "done"
    /\ UNCHANGED <<dados_empresas_file, arquivos_empresas, df_empresas, dados_empresas,
                   dados_empresas_norm, output_zip, match_log, idx, info, ws, last_col>>
    /\ UNCHANGED normVars

Next ==
    \/ ReadRoster
    \/ Extract
    \/ BuildIndex
    \/ MatchFile
    \/ OpenFile
    \/ DetectLastCol
    \/ InsertRows
    \/ MergeHeader
    \/ SaveFile
    \/ Finish

Spec == Init /\ [][Next]_vars

\* Rosters of every shape, one file that matches "Ab".
InitExtract ==
    /\ InitRun({Xlsx(df) : df \in Tables}, {<<File(NameAb, TRUE, SheetOf(<<X, X>>, <<X, X, X>>, {}))>>})
    /\ NormIdle

SpecExtract == InitExtract /\ [][Next]_vars

\* One company, one matching file, sheets of every shape.
InitSheet ==
    /\ InitRun({RosterAb}, {<<File(NameAb, TRUE, sh)>> : sh \in BigSheets})
    /\ NormIdle

SpecSheet == InitSheet /\ [][Next]_vars

(***************************************************************************)
(* normalizar applied to a text, and again to its own output.              *)
(***************************************************************************)
NormChars == {"a", "A", "1", " ", "&", "a~", "EUR", "NBSP"}
Texts == UNION {[1..n -> NormChars] : n \in 0..MaxLen}

InitNorm ==
    /\ InitRun({[kind |-> "none", df |-> <<>>]}, {<<>>})
    /\ texto \in Texts
    /\ norm1 = <<>>
    /\ norm2 = <<>>
    /\ pcN = "in"

NormOnce ==
    /\ pcN = "in"
    /\ norm1' = normalizar(texto)
    /\ pcN' = "once"
    /\ UNCHANGED <<texto, norm2>>
    /\ UNCHANGED runVars

NormTwice ==
    /\ pcN = "once"
    /\ norm2' = normalizar(norm1)
    /\ pcN' = "twice"
    /\ UNCHANGED <<texto, norm1>>
    /\ UNCHANGED runVars

NextNorm == NormOnce \/ NormTwice

SpecNorm == InitNorm /\ [][NextNorm]_vars

(***************************************************************************)
(* Properties.                                                             *)
(***************************************************************************)
\* What a log line is about: the error line names the file, the others its
\* base name.
AboutFile(e, f) == IF e.kind = "openerror" THEN e.nome = f.name ELSE e.nome = BaseNome(f.name)

Extracted == pc \notin {"script", "extract", "waiting"} /\ dados_empresas_file.kind = "xlsx"

NumBlocos(df) == (Len(df) + BlockRows - 1) \div BlockRows
BlocoN(df, g) == SubSeq(df, (g - 1) * BlockRows + 1, Min(g * BlockRows, Len(df)))
NonBlank(v) == v.kind # "nan" /\ Strip(PyStr(v)) # <<>>
Trimmed(v) == Strip(PyStr(v))
ExpectedRecord(b) ==
    [RAZAO_SOCIAL |-> Trimmed(b[1]), CNPJ |-> Trimmed(b[2]), ENDERECO |-> Trimmed(b[3]),
     TELEFONE |-> Trimmed(b[4]), EMAIL |-> Trimmed(b[5])]
CompleteRoster(df) ==
    /\ Len(df) % BlockRows = 0
    /\ \A g \in 1..NumBlocos(df) : NonBlank(BlocoN(df, g)[1])

\* C1: when the run is over the match log holds exactly one entry per input
\* file, the i-th entry being about the i-th file.
C1_OneEntryPerFileInOrder ==
    pc = "done" =>
       /\ Len(match_log) = Len(arquivos_empresas)
       /\ \A i \in DOMAIN match_log : AboutFile(match_log[i], arquivos_empresas[i])

\* C2: when the run is over, a file is logged as found if and only if the
\* archive holds an entry under its file name.
C2_FoundIffArchived ==
    pc = "done" =>
       \A i \in DOMAIN arquivos_empresas :
          (\E j \in DOMAIN match_log :
              match_log[j].kind = "found" /\ match_log[j].nome = BaseNome(arquivos_empresas[i].name))
          <=> (\E k \in DOMAIN output_zip.entries :
                  output_zip.entries[k].name = arquivos_empresas[i].name)

\* C3 as stated: a roster of N complete blocks with non-blank leading cells
\* yields exactly N records, one per block, with the block's trimmed fields.
C3_ExactlyNRecords ==
    (Extracted /\ CompleteRoster(df_empresas)) =>
       /\ Len(dados_empresas) = NumBlocos(df_empresas)
       /\ \A g \in 1..NumBlocos(df_empresas) :
             \E i \in DOMAIN dados_empresas :
                dados_empresas[i].v = ExpectedRecord(BlocoN(df_empresas, g))

\* C3 amended: a roster of N complete blocks with non-blank leading cells
\* yields one record per distinct trimmed leading text (N records when those
\* are pairwise distinct), the record of a name holding the trimmed str() of
\* column B of rows 0..4 of the last block with that name.
C3_OneRecordPerName ==
    (Extracted /\ CompleteRoster(df_empresas)) =>
       LET N == NumBlocos(df_empresas)
           nome(g) == Trimmed(BlocoN(df_empresas, g)[1])
           ultimo(g) == SetMax({h \in 1..N : nome(h) = nome(g)})
       IN /\ Len(dados_empresas) = Cardinality({nome(g) : g \in 1..N})
          /\ \A g \in 1..N :
                /\ DictHas(dados_empresas, nome(g))
                /\ DictGet(dados_empresas, nome(g)) = ExpectedRecord(BlocoN(df_empresas, ultimo(g)))

C3_TwoDistinctBlocks ==
    /\ Extracted /\ CompleteRoster(df_empresas)
    /\ NumBlocos(df_empresas) = 2
    /\ Len(dados_empresas) = 2
    /\ dados_empresas[1].v.CNPJ # dados_empresas[2].v.CNPJ

\* C4: a block contributes a record if and only if it has at least 2 rows
\* and a non-blank leading cell, so every record of the extraction and of
\* the roster index has a non-empty legal name.
C4_RecordIffNonBlankLead ==
    Extracted =>
       /\ {dados_empresas[i].k : i \in DOMAIN dados_empresas}
             = {Trimmed(BlocoN(df_empresas, g)[1]) :
                  g \in {h \in 1..NumBlocos(df_empresas) :
                           /\ Len(BlocoN(df_empresas, h)) >= 2
                           /\ NonBlank(BlocoN(df_empresas, h)[1])}}
       /\ \A i \in DOMAIN dados_empresas : dados_empresas[i].v.RAZAO_SOCIAL # <<>>
       /\ \A i \in DOMAIN dados_empresas_norm : dados_empresas_norm[i].v.RAZAO_SOCIAL # <<>>

\* The current file fails: no roster key scores 0.3 or more, or the workbook
\* does not open.
NoKeyMatches(f) ==
    \A i \in DOMAIN dados_empresas_norm :
       ~PassesCutoff(ratio(dados_empresas_norm[i].k, normalizar(BaseNome(f.name))))
FileFails ==
    \/ pc = "loop" /\ idx < Len(arquivos_empresas) /\ NoKeyMatches(arquivo)
    \/ pc = "open" /\ ~arquivo.opens

\* The positions of the script inside the loop over the files, and how far
\* the loop has come.
LoopStates == {"loop", "open", "detect", "insert", "merge", "save"}
PcRank == [p \in LoopStates |->
             CASE p = "loop" -> 0 [] p = "open" -> 1 [] p = "detect" -> 2
               [] p = "insert" -> 3 [] p = "merge" -> 4 [] OTHER -> 5]
Progress == idx * Cardinality(LoopStates) + PcRank[pc]

FatalSetup ==
    \/ dados_empresas_file.kind = "corrupt"
    \/ /\ dados_empresas_file.kind = "xlsx"
       /\ \A g \in 1..NumBlocos(dados_empresas_file.df) :
             \/ Len(BlocoN(dados_empresas_file.df, g)) < 2
             \/ BlocoN(dados_empresas_file.df, g)[1].kind = "nan"

HeaderOf(sheet) ==
    [RAZAO_SOCIAL |-> sheet.cells[<<1, 1>>].value.s, CNPJ |-> sheet.cells[<<2, 1>>].value.s,
     ENDERECO |-> sheet.cells[<<3, 1>>].value.s, TELEFONE |-> sheet.cells[<<4, 1>>].value.s,
     EMAIL |-> sheet.cells[<<5, 1>>].value.s]

ExactKey == DictHas(dados_empresas_norm, nome_norm)

\* C7: a file whose normalised base name is a key of the roster index is
\* matched to that key: the log line names that key's company, and the
\* sheet that goes into the archive is stamped with that key's record.
C7_ExactKeyWins ==
    [][/\ (pc = "loop" /\ idx < Len(arquivos_empresas) /\ ExactKey) =>
             /\ pc' = "open"
             /\ info' = DictGet(dados_empresas_norm, nome_norm)
             /\ match_log' = Append(match_log,
                   LogFound(base_nome, DictGet(dados_empresas_norm, nome_norm).RAZAO_SOCIAL))
       /\ (pc = "save" /\ ExactKey) =>
             /\ Len(output_zip'.entries) = Len(output_zip.entries) + 1
             /\ output_zip'.entries[Len(output_zip'.entries)].name = nome_arquivo
             /\ HeaderOf(output_zip'.entries[Len(output_zip'.entries)].content)
                   = DictGet(dados_empresas_norm, nome_norm)]_vars

C7_ExactAmongTwoKeys ==
    /\ pc = "done"
    /\ Len(dados_empresas_norm) = 2
    /\ \E k \in DOMAIN output_zip.entries :
          /\ output_zip.entries[k].name = NameAb
          /\ HeaderOf(output_zip.entries[k].content).RAZAO_SOCIAL = <<"A", "b">>
    /\ \E i \in DOMAIN dados_empresas_norm :
          /\ dados_empresas_norm[i].k # <<"a", "b">>
          /\ PassesCutoff(ratio(dados_empresas_norm[i].k, <<"a", "b">>))

\* C8: normalizar is idempotent, and its output holds only lower-case ASCII
\* letters, digits and whitespace, with no whitespace at either end.
C8_NormalizarIdempotent ==
    /\ pcN = "twice" => norm2 = norm1
    /\ pcN \in {"once", "twice"} =>
          /\ \A i \in DOMAIN norm1 : norm1[i] \in LowerLetters \cup AsciiDigits \cup AsciiSpaces
          /\ norm1 # <<>> => (norm1[1] \notin AsciiSpaces /\ norm1[Len(norm1)] \notin AsciiSpaces)

C8_NormalizedChanged ==
    /\ pcN = "twice"
    /\ Len(norm1) = 3
    /\ norm1[2] = " "
    /\ Len(texto) = 3
    /\ texto # norm1

\* The sheet of the current file as uploaded, and the right-most column of
\* its row r with a filled cell (0 when there is none).
Uploaded == arquivo.sheet
RightMost(sheet, r) ==
    SetMax({0} \cup {p[2] : p \in {q \in DOMAIN sheet.cells :
                                      /\ q[1] = r
                                      /\ sheet.cells[q].value.kind # "none"
                                      /\ Strip(PyStr(sheet.cells[q].value)) # <<>>}})
Detected == pc \in {"insert", "merge", "save"}

\* C9 as stated: the width is taken from the sheet as uploaded and is the
\* right-most filled column of row 6 or row 7, 1 when both are empty.
C9_TwoRowProbe ==
    /\ pc = "insert" => ws = Uploaded
    /\ Detected => last_col = Max(1, Max(RightMost(Uploaded, ProbeRow), RightMost(Uploaded, ProbeRow + 1)))

\* C9 amended: the width is taken from the sheet as uploaded, before the 5
\* rows are inserted, and is the right-most filled column of row 6 alone, 1
\* when row 6 has no filled cell; row 7 is not looked at.
C9_RowSixProbe ==
    /\ pc = "insert" => ws = Uploaded
    /\ Detected => last_col = Max(1, RightMost(Uploaded, ProbeRow))

C9_RowSevenWider ==
    /\ pc = "merge"
    /\ RightMost(Uploaded, ProbeRow) = 2
    /\ RightMost(Uploaded, ProbeRow + 1) = 3
    /\ <<ProbeRow, 1>> \notin DOMAIN Uploaded.cells
    /\ last_col = 2

RangesOverlap(a, b) ==
    /\ a.min_row <= b.max_row /\ b.min_row <= a.max_row
    /\ a.min_col <= b.max_col /\ b.min_col <= a.max_col

\* C10: the merged ranges of a stamped sheet are exactly the five header
\* ranges, row i from column 1 to last_col, and no two of them overlap.
C10_OnlyHeaderMerges ==
    pc = "save" =>
       /\ ws.merged = {Range(i, 1, i, last_col) : i \in 1..HeaderRows}
       /\ \A a \in ws.merged : \A b \in ws.merged \ {a} : ~RangesOverlap(a, b)

=============================================================================
